---------------------------- MODULE Spec2Model ----------------------------
(***************************************************************************)
(* A model of the prefix searcher: trie::Node (src/trie/Node.hpp) and      *)
(* trie::Trie (src/trie/Trie.cpp), with its sequential and its OpenMP      *)
(* parallel bulk construction.                                             *)
(*                                                                         *)
(* Nodes live in a heap: a std::unique_ptr<Node> is a node id or NULL, a   *)
(* Trie is its m_rootNode.  String indices are 0-based as in the source,   *)
(* so string number i of the input is strings[i + 1].                      *)
(***************************************************************************)
EXTENDS Integers, Sequences, FiniteSets, TLC

(***************************************************************************)
(* Bounds of the model.                                                    *)
(***************************************************************************)
MaxStrings == 3
MaxLen == 2
MaxPrefixLength == 2
MaxThreads == 2
\* Node ids: the nodes allocated in the loop iteration for bucket b have the ids
\* b * ArenaSize + 1, b * ArenaSize + 2, ...; those allocated outside the
\* parallel loop have the ids 1, 2, ...
ArenaSize == 100
\* the number of calls in a run of Node methods on one node
MaxCalls == 4
\* the number of strings in a run of bucketSortStrings alone
MaxSortStrings == 2

\* the depth of the trees whose size in memory is asked for
MaxDepth == 4

\* The bytes the input strings and the queried prefixes are made of.
Alphabet == {97, 98}

(***************************************************************************)
(* Program constants.                                                      *)
(***************************************************************************)
\* nullptr
NULL == 0
\* std::numeric_limits<size_t>::max(), all bits set
INVALID_STRING_INDEX == -1
\* the radix of the bucket index
Radix == 256
\* sizeof(size_t): a size_t is WordBytes base-256 digits, least significant first
WordBytes == 8
\* the thread that calls the constructor; it is thread 1 of the OpenMP team
MainThread == 1

(***************************************************************************)
(* Sequences.                                                              *)
(***************************************************************************)
SeqsUpTo(S, n) == UNION {[1..k -> S] : k \in 0..n}

Range(s) == {s[k] : k \in 1..Len(s)}

Min(a, b) == IF a < b THEN a ELSE b

\* std::string::rfind(prefix, 0) == 0
StartsWith(s, p) == Len(p) <= Len(s) /\ SubSeq(s, 1, Len(p)) = p

(***************************************************************************)
(* Node.  A heap is [mem |-> (live node id -> node), next |-> (arena ->     *)
(* the serial number of its next node), arena |-> the allocating arena].   *)
(***************************************************************************)
Arenas == 0..MaxStrings

EmptyHeap == [mem |-> <<>>, next |-> [a \in Arenas |-> 1], arena |-> 0]

\* the id the next std::make_unique<Node>() returns
NextId(h) == h.arena * ArenaSize + h.next[h.arena]

\* heap h while the loop iteration for bucket a (0: no iteration) allocates
InArena(h, a) == [h EXCEPT !.arena = a]

NewNode == [m_keysAndChildNodes |-> <<>>, m_stringIndex |-> INVALID_STRING_INDEX]

\* std::make_unique<Node>(): the new node is NextId(h)
makeNode(h) ==
  [h EXCEPT !.mem = h.mem @@ (NextId(h) :> NewNode), !.next[h.arena] = @ + 1]

\* the position of the first pair with this key, 0 for std::end
findKey(node, key) ==
  LET hits == {k \in 1..Len(node.m_keysAndChildNodes) :
                 node.m_keysAndChildNodes[k].first = key}
  IN  IF hits = {} THEN 0 ELSE CHOOSE k \in hits : \A j \in hits : k <= j

getChildNode(h, id, key) ==
  LET it == findKey(h.mem[id], key)
  IN  IF it # 0 THEN h.mem[id].m_keysAndChildNodes[it].second ELSE NULL

\* the node ids of the subtree of id (none for NULL)
RECURSIVE Subtree(_, _)
Subtree(h, id) ==
  IF id = NULL \/ id \notin DOMAIN h.mem THEN {}
  ELSE {id} \cup UNION {Subtree(h, h.mem[id].m_keysAndChildNodes[k].second) :
                          k \in 1..Len(h.mem[id].m_keysAndChildNodes)}

\* ~unique_ptr<Node>: the node and everything it owns is destroyed
destroy(h, id) ==
  LET gone == Subtree(h, id)
  IN  [h EXCEPT !.mem = [n \in (DOMAIN h.mem) \ gone |-> h.mem[n]]]

\* a setChildNode that does not look the key up first
setChildNode_AlwaysAppends(h, id, key, node) ==
  [h EXCEPT !.mem[id].m_keysAndChildNodes =
              Append(@, [first |-> key, second |-> node])]

setChildNode(h, id, key, node) ==
  LET it == findKey(h.mem[id], key)
  IN  IF it # 0
      THEN LET old == h.mem[id].m_keysAndChildNodes[it].second
               h1 == [h EXCEPT !.mem[id].m_keysAndChildNodes[it].second = node]
           IN  destroy(h1, old)
      ELSE [h EXCEPT !.mem[id].m_keysAndChildNodes =
                        Append(@, [first |-> key, second |-> node])]

\* a getOrCreateChildNode that does not look the key up first
getOrCreateChildNode_AlwaysCreates(h, id, key) ==
  [heap |-> setChildNode(makeNode(h), id, key, NextId(h)), node |-> NextId(h)]

\* returns the heap and the child
getOrCreateChildNode(h, id, key) ==
  LET childNode == getChildNode(h, id, key)
  IN  IF childNode = NULL
      THEN [heap |-> setChildNode(makeNode(h), id, key, NextId(h)),
            node |-> NextId(h)]
      ELSE [heap |-> h, node |-> childNode]

setStringIndex(h, id, stringIndex) == [h EXCEPT !.mem[id].m_stringIndex = stringIndex]

\* The walk of getDescendantNodeForPrefix from currentNode over prefix[k..]:
\* the node reached or NULL, and the number of bytes it looked up.
RECURSIVE descend(_, _, _, _)
\* a walk that goes on with the next byte when a child is absent
RECURSIVE descend_PastAbsentChild(_, _, _, _)
descend_PastAbsentChild(h, currentNode, prefix, k) ==
  IF k > Len(prefix) THEN [node |-> currentNode, looked |-> k - 1]
  ELSE LET child == getChildNode(h, currentNode, prefix[k])
       IN  descend_PastAbsentChild(h, IF child = NULL THEN currentNode ELSE child,
                                   prefix, k + 1)

descend(h, currentNode, prefix, k) ==
  IF k > Len(prefix) THEN [node |-> currentNode, looked |-> k - 1]
  ELSE LET child == getChildNode(h, currentNode, prefix[k])
       IN  IF child = NULL THEN [node |-> NULL, looked |-> k]
           ELSE descend(h, child, prefix, k + 1)

getDescendantNodeForPrefix(h, id, prefix) == descend(h, id, prefix, 1).node

RECURSIVE collectStringIndices(_, _)
RECURSIVE collectChildren(_, _, _)
collectChildren(h, id, k) ==
  IF k > Len(h.mem[id].m_keysAndChildNodes) THEN <<>>
  ELSE LET second == h.mem[id].m_keysAndChildNodes[k].second
       IN  (IF second # NULL THEN collectStringIndices(h, second) ELSE <<>>)
           \o collectChildren(h, id, k + 1)

\* a traversal that appends a node's index before and after its children
collectStringIndices_IndexTwice(h, id) ==
  LET own == IF h.mem[id].m_stringIndex # INVALID_STRING_INDEX
             THEN <<h.mem[id].m_stringIndex>> ELSE <<>>
  IN  own \o collectChildren(h, id, 1) \o own

\* the indices the call appends to stringIndices
collectStringIndices(h, id) ==
  (IF h.mem[id].m_stringIndex # INVALID_STRING_INDEX
   THEN <<h.mem[id].m_stringIndex>> ELSE <<>>)
  \o collectChildren(h, id, 1)

(***************************************************************************)
(* Trie: search and insertion.                                             *)
(***************************************************************************)
searchPrefix(h, m_rootNode, prefix) ==
  LET descendantNode == getDescendantNodeForPrefix(h, m_rootNode, prefix)
  IN  IF descendantNode # NULL THEN collectStringIndices(h, descendantNode) ELSE <<>>

\* the loop of insertString from characterIndex (0-based) on
RECURSIVE insertFrom(_, _, _, _, _)
insertFrom(h, currentNode, string, stringIndex, characterIndex) ==
  IF characterIndex < Len(string)
  THEN LET r == getOrCreateChildNode(h, currentNode, string[characterIndex + 1])
       IN  insertFrom(r.heap, r.node, string, stringIndex, characterIndex + 1)
  ELSE setStringIndex(h, currentNode, stringIndex)

\* an insertString that sets the index only when its loop has run
insertString_IndexInsideLoop(h, m_rootNode, strs, stringIndex, ignorePrefixLength) ==
  IF ignorePrefixLength < Len(strs[stringIndex + 1])
  THEN insertFrom(h, m_rootNode, strs[stringIndex + 1], stringIndex, ignorePrefixLength)
  ELSE h

\* an insertString whose loop starts one byte late
insertString_SkipsFirstByte(h, m_rootNode, strs, stringIndex, ignorePrefixLength) ==
  insertFrom(h, m_rootNode, strs[stringIndex + 1], stringIndex, ignorePrefixLength + 1)

insertString(h, m_rootNode, strs, stringIndex, ignorePrefixLength) ==
  insertFrom(h, m_rootNode, strs[stringIndex + 1], stringIndex, ignorePrefixLength)

\* the walk of a searchPrefix that uses getOrCreateChildNode
RECURSIVE createPath(_, _, _, _)
createPath(h, currentNode, prefix, k) ==
  IF k > Len(prefix) THEN h
  ELSE LET r == getOrCreateChildNode(h, currentNode, prefix[k])
       IN  createPath(r.heap, r.node, prefix, k + 1)

searchPrefixCall_CreatesNodes(h, m_rootNode, prefix) ==
  [heap |-> createPath(h, m_rootNode, prefix, 1),
   stringIndices |-> searchPrefix(h, m_rootNode, prefix)]

\* a searchPrefix call: the heap it leaves (the method is const) and the
\* indices it returns
searchPrefixCall(h, m_rootNode, prefix) ==
  [heap |-> h, stringIndices |-> searchPrefix(h, m_rootNode, prefix)]

\* Trie(strings, stringIndices, ignorePrefixLength) on a heap of its own: the
\* loop from position k (1-based) of stringIndices on
RECURSIVE insertAll(_, _, _, _, _, _)
insertAll(h, m_rootNode, strs, stringIndices, ignorePrefixLength, k) ==
  IF k > Len(stringIndices) THEN h
  ELSE insertAll(insertString(h, m_rootNode, strs, stringIndices[k],
                              ignorePrefixLength),
                 m_rootNode, strs, stringIndices, ignorePrefixLength, k + 1)

TrieOfIndices(strs, stringIndices, ignorePrefixLength) ==
  [heap |-> insertAll(makeNode(EmptyHeap), NextId(EmptyHeap), strs, stringIndices,
                      ignorePrefixLength, 1),
   m_rootNode |-> NextId(EmptyHeap)]

\* the tree below a node as a value: its index and, in the order of
\* m_keysAndChildNodes, its keys with the trees below them
RECURSIVE TreeOf(_, _)
TreeOf(h, id) ==
  IF id = NULL THEN [null |-> TRUE]
  ELSE [m_stringIndex |-> h.mem[id].m_stringIndex,
        m_keysAndChildNodes |->
          [k \in 1..Len(h.mem[id].m_keysAndChildNodes) |->
             [first |-> h.mem[id].m_keysAndChildNodes[k].first,
              second |-> TreeOf(h, h.mem[id].m_keysAndChildNodes[k].second)]]]

(***************************************************************************)
(* size_t arithmetic.  A size_t is a word of WordBytes base-256 digits,    *)
(* least significant first; every operation is modulo 2^64 as in the build.*)
(***************************************************************************)
WordOfByte(b) == [k \in 1..WordBytes |-> IF k = 1 THEN b ELSE 0]

RECURSIVE mulDigits(_, _, _, _)
mulDigits(w, m, k, carry) ==
  IF k > WordBytes THEN <<>>
  ELSE LET p == w[k] * m + carry
       IN  <<p % Radix>> \o mulDigits(w, m, k + 1, p \div Radix)

\* w * m for a word w and m in 0..256
MulWord(w, m) == mulDigits(w, m, 1, 0)

RECURSIVE addDigits(_, _, _, _)
addDigits(a, b, k, carry) ==
  IF k > WordBytes THEN <<>>
  ELSE LET p == a[k] + b[k] + carry
       IN  <<p % Radix>> \o addDigits(a, b, k + 1, p \div Radix)

AddWord(a, b) == addDigits(a, b, 1, 0)

WordLess(a, b) ==
  \E k \in 1..WordBytes : a[k] < b[k] /\ \A j \in (k + 1)..WordBytes : a[j] = b[j]

\* a / p for a divisor p that is a power of 256 (the only divisors the code
\* uses, besides 0 once 256 ** i has wrapped)
DivWord(a, p) ==
  LET s == CHOOSE k \in 1..WordBytes : p[k] = 1
  IN  [k \in 1..WordBytes |-> IF k + s - 1 <= WordBytes THEN a[k + s - 1] ELSE 0]

IsZeroWord(w) == \A k \in 1..WordBytes : w[k] = 0

\* the values currentPowerOf256 takes: 256 ** i
RECURSIVE PowerOf256(_)
PowerOf256(i) == IF i = 0 THEN WordOfByte(1) ELSE MulWord(PowerOf256(i - 1), Radix)

RECURSIVE SortWords(_)
SortWords(S) ==
  IF S = {} THEN <<>>
  ELSE LET m == CHOOSE x \in S : \A y \in S : ~WordLess(y, x)
       IN  <<m>> \o SortWords(S \ {m})

\* the ascending sequence of a set of numbers
RECURSIVE SortNats(_)
SortNats(S) ==
  IF S = {} THEN <<>>
  ELSE LET m == CHOOSE x \in S : \A y \in S : x <= y
       IN  <<m>> \o SortNats(S \ {m})

(***************************************************************************)
(* Trie::bucketSortStrings.                                                *)
(***************************************************************************)
\* powersOf256[i] of the source is powersOf256(prefixLength)[i + 1]
powersOf256(prefixLength) ==
  [j \in 1..prefixLength |-> PowerOf256(prefixLength - j)]

RECURSIVE bucketIndexFrom(_, _, _, _)
bucketIndexFrom(string, powers, i, acc) ==
  IF i > Len(powers) THEN acc
  ELSE bucketIndexFrom(string, powers, i + 1,
                       AddWord(acc, MulWord(powers[i], string[i])))

\* the bucket index of a string of length >= prefixLength
bucketIndexOf(string, prefixLength) ==
  bucketIndexFrom(string, powersOf256(prefixLength), 1, WordOfByte(0))

\* the prefix recreated from a bucket index
prefixOfBucketIndex(bucketIndex, prefixLength) ==
  [j \in 1..prefixLength |-> DivWord(bucketIndex, powersOf256(prefixLength)[j])[1]]

\* a test that sends a string of exactly prefixLength bytes to the short ones
isLongString_Strictly(string, prefixLength) == Len(string) > prefixLength

\* strings[stringIndex].length() >= prefixLength
isLongString(string, prefixLength) == Len(string) >= prefixLength

\* The result lists, and outOfRange: some allBucketVectors[bucketIndex] is
\* an access outside the table.  The table has PowerOf256(prefixLength)
\* entries; the loop that emits the buckets runs over this table, in
\* ascending order of bucketIndex.  (A division by a powersOf256[i] that
\* has wrapped to 0 does not occur: the table then has no entry to emit.)
bucketSortStrings(strs, prefixLength) ==
  LET long  == {stringIndex \in 0..(Len(strs) - 1) :
                  isLongString(strs[stringIndex + 1], prefixLength)}
      short == (0..(Len(strs) - 1)) \ long
      keyOf(stringIndex) == bucketIndexOf(strs[stringIndex + 1], prefixLength)
      tableSize == PowerOf256(prefixLength)
      inTable == {stringIndex \in long : WordLess(keyOf(stringIndex), tableSize)}
      used  == SortWords({keyOf(stringIndex) : stringIndex \in inTable})
  IN  [bucketPrefixes |-> [b \in 1..Len(used) |->
                             prefixOfBucketIndex(used[b], prefixLength)],
       buckets |-> [b \in 1..Len(used) |->
                      SortNats({stringIndex \in inTable : keyOf(stringIndex) = used[b]})],
       shortStringIndices |-> SortNats(short),
       outOfRange |-> inTable # long]

(***************************************************************************)
(* Trie(tries, trieBeginIndex, keys) and Trie::coarsenBucketTries.  A list *)
(* of tries is the list of their m_rootNode.                               *)
(***************************************************************************)
RECURSIVE adoptFrom(_, _, _, _, _, _)
adoptFrom(h, root, tries, trieBeginIndex, keys, i) ==
  IF i >= Len(keys) THEN [heap |-> h, tries |-> tries, root |-> root]
  ELSE adoptFrom(setChildNode(h, root, keys[i + 1], tries[trieBeginIndex + i + 1]),
                 root,
                 [tries EXCEPT ![trieBeginIndex + i + 1] = NULL],
                 trieBeginIndex, keys, i + 1)

\* a merge that leaves the run members their roots
TrieOfTries_CopiesRoots(h, tries, trieBeginIndex, keys) ==
  [adoptFrom(makeNode(h), NextId(h), tries, trieBeginIndex, keys, 0) EXCEPT !.tries = tries]

\* the new trie's root takes the roots of tries[trieBeginIndex ..] as children
TrieOfTries(h, tries, trieBeginIndex, keys) ==
  adoptFrom(makeNode(h), NextId(h), tries, trieBeginIndex, keys, 0)

\* a scan that ends every run after its first member
scanEnd_SingleMember(prefixes, coarseBucketEndIndex, coarseBucketPrefix, coarsePrefixLength) ==
  coarseBucketEndIndex

\* a scan that leaves the end index at the begin index
scanEnd_StaysAtBegin(prefixes, coarseBucketEndIndex, coarseBucketPrefix, coarsePrefixLength) ==
  coarseBucketEndIndex - 1

RECURSIVE scanEnd(_, _, _, _)
scanEnd(prefixes, coarseBucketEndIndex, coarseBucketPrefix, coarsePrefixLength) ==
  IF /\ coarseBucketEndIndex < Len(prefixes)
     /\ SubSeq(prefixes[coarseBucketEndIndex + 1], 1, coarsePrefixLength)
          = coarseBucketPrefix
  THEN scanEnd(prefixes, coarseBucketEndIndex + 1, coarseBucketPrefix, coarsePrefixLength)
  ELSE coarseBucketEndIndex

\* bucketTries = std::move(coarseTries): the tries the list held are destroyed
RECURSIVE destroyTries(_, _, _)
destroyTries(h, tries, k) ==
  IF k > Len(tries) THEN h ELSE destroyTries(destroy(h, tries[k]), tries, k + 1)

(***************************************************************************)
(* The state of one run of Trie(strings, parallelPrefixLength), followed   *)
(* by searchPrefix calls on the trie it built.                             *)
(***************************************************************************)
VARIABLES
  strings,               \* the input collection
  parallelPrefixLength,  \* the constructor's second argument
  maxThreads,            \* omp_get_max_threads()
  pc,                    \* where the constructing thread is
  heap,                  \* the nodes
  m_rootNode,            \* this->m_rootNode
  bucketPrefixes, buckets, shortStringIndices, bucketTries,
  coarsePrefixLength,    \* the loop variable of the coarsening loop
  coarseBucketPrefixes, coarseTries, coarseBucketBeginIndex,
                         \* the locals of coarsenBucketTries
  nodeCall,              \* the last call of a Node method in the runs on one node
  stringIndex,           \* the loop position of the insertion loops
  wpc, wbucket, wpos, wtrie, \* per thread: its loop iteration of createBucketTries
  started, finished,     \* the bucket indices whose iteration has begun, has ended
  query,                 \* the last searchPrefix call and what it returned
  tries2,                \* the two tries of the insertion-order runs
  thread,                \* history: the thread that took the last step
  allocator,             \* history: node id -> the thread that allocated it,
                         \* for the nodes allocated in the parallel region
  writeLog,              \* history: the writes of the parallel region
  rounds,                \* history: the calls of coarsenBucketTries so far
  installed,             \* history: *this = std::move(bucketTries[0]) has run
  undefined              \* history: the run has executed undefined behaviour

vars == <<strings, parallelPrefixLength, maxThreads, pc, heap, m_rootNode,
          bucketPrefixes, buckets, shortStringIndices, bucketTries,
          coarsePrefixLength, stringIndex, wpc, wbucket, wpos, wtrie,
          started, finished, query, tries2, thread, allocator, writeLog,
          rounds, installed, undefined,
          coarseBucketPrefixes, coarseTries, coarseBucketBeginIndex, nodeCall>>

scanVars == <<coarseBucketPrefixes, coarseTries, coarseBucketBeginIndex>>

buildVars == <<bucketPrefixes, buckets, shortStringIndices, bucketTries,
               coarsePrefixLength, wpc, wbucket, wpos, wtrie, started, finished,
               allocator, writeLog, rounds, installed, scanVars, nodeCall>>

Strings == SeqsUpTo(Alphabet, MaxLen)
Inputs == SeqsUpTo(Strings, MaxStrings)
Prefixes == SeqsUpTo(Alphabet, MaxLen)
Threads == 1..MaxThreads
Team == 1..maxThreads

\* no Node method called yet
NoCall == [op |-> "none", key |-> 0, node |-> NULL, tree |-> <<>>,
           result |-> NULL, calls |-> 0]

\* calls counts the searchPrefix calls so far, up to 2
NoQuery == [prefix |-> <<>>, stringIndices |-> <<>>, calls |-> 0]

\* the construction-time state before anything has run
InitCommon ==
  /\ bucketPrefixes = <<>> /\ buckets = <<>> /\ shortStringIndices = <<>>
  /\ bucketTries = <<>>
  /\ coarsePrefixLength = 0
  /\ coarseBucketPrefixes = <<>> /\ coarseTries = <<>>
  /\ coarseBucketBeginIndex = 0
  /\ stringIndex = 0
  /\ wpc = [w \in Threads |-> "idle"]
  /\ wbucket = [w \in Threads |-> 0]
  /\ wpos = [w \in Threads |-> 0]
  /\ wtrie = [w \in Threads |-> NULL]
  /\ started = {} /\ finished = {}
  /\ query = NoQuery
  /\ nodeCall = NoCall
  /\ thread = MainThread
  /\ allocator = <<>>
  /\ writeLog = {}
  /\ rounds = 0
  /\ installed = FALSE
  /\ undefined = FALSE

Init ==
  /\ strings \in Inputs
  /\ parallelPrefixLength \in 0..MaxPrefixLength
  /\ maxThreads \in Threads
  /\ pc = "start"
  \* the member initialiser has made the root
  /\ heap = makeNode(EmptyHeap)
  /\ m_rootNode = 1
  /\ tries2 = <<>>
  /\ InitCommon

\* the nodes a step from heap h to heap g has made or changed
Written(h, g) ==
  {id \in DOMAIN g.mem : id \notin DOMAIN h.mem \/ g.mem[id] # h.mem[id]}

\* the nodes a step from heap h to heap g has allocated
Allocated(h, g) == (DOMAIN g.mem) \ (DOMAIN h.mem)

(***************************************************************************)
(* Trie(strings, parallelPrefixLength): the sequential branch.             *)
(***************************************************************************)
Sequential == parallelPrefixLength = 0 \/ maxThreads = 1

BeginSequential ==
  /\ pc = "start"
  /\ Sequential
  /\ pc' = IF Len(strings) = 0 THEN "done" ELSE "insert"
  /\ stringIndex' = 0
  /\ thread' = MainThread
  /\ UNCHANGED <<strings, parallelPrefixLength, maxThreads, heap, m_rootNode,
                 query, tries2, undefined, buildVars>>

InsertNext ==
  /\ pc = "insert"
  /\ heap' = insertString(heap, m_rootNode, strings, stringIndex, 0)
  /\ stringIndex' = stringIndex + 1
  /\ pc' = IF stringIndex + 1 < Len(strings) THEN "insert" ELSE "done"
  /\ UNCHANGED <<scanVars, nodeCall>>
  /\ thread' = MainThread
  /\ UNCHANGED allocator
  /\ UNCHANGED <<strings, parallelPrefixLength, maxThreads, m_rootNode, query,
                 tries2, undefined, bucketPrefixes, buckets, shortStringIndices,
                 bucketTries, coarsePrefixLength, wpc, wbucket, wpos, wtrie,
                 started, finished, writeLog, rounds, installed>>

(***************************************************************************)
(* The parallel branch: bucketSortStrings, then createBucketTries, whose   *)
(* vector of buckets.size() default tries each own a fresh root.           *)
(***************************************************************************)
RECURSIVE defaultTries(_, _, _)
defaultTries(h, n, tries) ==
  IF Len(tries) = n THEN [heap |-> h, tries |-> tries]
  ELSE defaultTries(makeNode(h), n, Append(tries, NextId(h)))

BeginParallel ==
  /\ pc = "start"
  /\ ~Sequential
  /\ LET sorted == bucketSortStrings(strings, parallelPrefixLength)
         made == defaultTries(heap, Len(sorted.buckets), <<>>)
     IN  /\ bucketPrefixes' = sorted.bucketPrefixes
         /\ buckets' = sorted.buckets
         /\ shortStringIndices' = sorted.shortStringIndices
         /\ heap' = made.heap
         /\ bucketTries' = made.tries
  /\ UNCHANGED allocator
  /\ pc' = "parallel"
  /\ UNCHANGED <<scanVars, nodeCall>>
  /\ thread' = MainThread
  /\ UNCHANGED <<strings, parallelPrefixLength, maxThreads, m_rootNode, query,
                 tries2, undefined, coarsePrefixLength, stringIndex, wpc, wbucket,
                 wpos, wtrie, started, finished, writeLog, rounds, installed>>

\* One iteration of the parallel loop, on thread w, for bucket index b
\* (1-based): Trie(strings, buckets[b], prefixLength) makes the root ...
TaskStart(w, b) ==
  /\ pc = "parallel"
  /\ wpc[w] = "idle"
  /\ b \in (1..Len(buckets)) \ started
  /\ started' = started \cup {b}
  /\ heap' = InArena(makeNode(InArena(heap, b)), 0)
  /\ wtrie' = [wtrie EXCEPT ![w] = NextId(InArena(heap, b))]
  /\ wbucket' = [wbucket EXCEPT ![w] = b]
  /\ wpos' = [wpos EXCEPT ![w] = 1]
  /\ wpc' = [wpc EXCEPT ![w] = "build"]
  /\ allocator' = allocator @@ (NextId(InArena(heap, b)) :> w)
  /\ writeLog' = writeLog \cup
       {[thread |-> w, bucket |-> b, loc |-> <<"node", NextId(InArena(heap, b))>>]}
  /\ UNCHANGED <<scanVars, nodeCall>>
  /\ thread' = w
  /\ UNCHANGED <<strings, parallelPrefixLength, maxThreads, pc, m_rootNode,
                 bucketPrefixes, buckets, shortStringIndices, bucketTries,
                 coarsePrefixLength, stringIndex, finished, query, tries2,
                 rounds, installed, undefined>>

\* ... inserts the bucket's strings without their first prefixLength bytes ...
TaskInsert(w) ==
  /\ pc = "parallel"
  /\ wpc[w] = "build"
  /\ wpos[w] <= Len(buckets[wbucket[w]])
  /\ heap' = InArena(insertString(InArena(heap, wbucket[w]), wtrie[w], strings,
                                  buckets[wbucket[w]][wpos[w]],
                                  parallelPrefixLength), 0)
  /\ wpos' = [wpos EXCEPT ![w] = @ + 1]
  /\ allocator' = allocator @@ [id \in Allocated(heap, heap') |-> w]
  /\ writeLog' = writeLog \cup
       {[thread |-> w, bucket |-> wbucket[w], loc |-> <<"node", id>>] :
          id \in Written(heap, heap')}
  /\ UNCHANGED <<scanVars, nodeCall>>
  /\ thread' = w
  /\ UNCHANGED <<strings, parallelPrefixLength, maxThreads, pc, m_rootNode,
                 bucketPrefixes, buckets, shortStringIndices, bucketTries,
                 coarsePrefixLength, stringIndex, wpc, wbucket, wtrie, started,
                 finished, query, tries2, rounds, installed, undefined>>

\* every task assigning to bucketTries[0]
SlotOf_AlwaysFirst(w) == 1

\* the slot of bucketTries a task assigns its trie to
SlotOf(w) == wbucket[w]

\* ... and bucketTries[bucketIndex] = the trie: the slot takes the root, the
\* root the slot owned is destroyed
TaskStore(w) ==
  /\ pc = "parallel"
  /\ wpc[w] = "build"
  /\ wpos[w] > Len(buckets[wbucket[w]])
  /\ bucketTries' = [bucketTries EXCEPT ![SlotOf(w)] = wtrie[w]]
  /\ heap' = destroy(heap, bucketTries[SlotOf(w)])
  /\ wtrie' = [wtrie EXCEPT ![w] = NULL]
  /\ wpc' = [wpc EXCEPT ![w] = "idle"]
  /\ finished' = finished \cup {wbucket[w]}
  /\ writeLog' = writeLog \cup
       {[thread |-> w, bucket |-> wbucket[w], loc |-> <<"slot", SlotOf(w)>>]}
  /\ UNCHANGED <<scanVars, nodeCall>>
  /\ thread' = w
  /\ UNCHANGED <<strings, parallelPrefixLength, maxThreads, pc, m_rootNode,
                 bucketPrefixes, buckets, shortStringIndices, coarsePrefixLength,
                 stringIndex, wbucket, wpos, started, query, tries2, allocator,
                 rounds, installed, undefined>>

\* a loop that ends when the constructing thread has no iteration left
Barrier_MainThreadOnly ==
  /\ started = 1..Len(buckets)
  /\ wpc[MainThread] = "idle"

\* the implicit barrier that ends the parallel loop
Barrier ==
  /\ finished = 1..Len(buckets)
  /\ \A w \in Team : wpc[w] = "idle"

Join ==
  /\ pc = "parallel"
  /\ Barrier
  /\ pc' = "coarsen"
  /\ coarsePrefixLength' = parallelPrefixLength
  /\ UNCHANGED <<scanVars, nodeCall>>
  /\ thread' = MainThread
  \* the history of the parallel region ends with the region
  /\ allocator' = <<>>
  /\ writeLog' = {}
  /\ wbucket' = [w \in Threads |-> 0]
  /\ wpos' = [w \in Threads |-> 0]
  /\ UNCHANGED <<strings, parallelPrefixLength, maxThreads, heap, m_rootNode,
                 bucketPrefixes, buckets, shortStringIndices, bucketTries,
                 stringIndex, wpc, wtrie, started, finished, query,
                 tries2, rounds, installed, undefined>>

\* One round of the coarsening loop: coarsenBucketTries is called; it returns
\* at once when bucketPrefixes is empty.
Coarsen ==
  /\ pc = "coarsen"
  /\ coarsePrefixLength > 0
  /\ coarsePrefixLength' = coarsePrefixLength - 1
  /\ rounds' = rounds + 1
  /\ pc' = IF bucketPrefixes = <<>> THEN "coarsen" ELSE "scan"
  /\ coarseBucketPrefixes' = <<>>
  /\ coarseTries' = <<>>
  /\ coarseBucketBeginIndex' = 0
  /\ UNCHANGED nodeCall
  /\ thread' = MainThread
  /\ UNCHANGED <<strings, parallelPrefixLength, maxThreads, heap, m_rootNode,
                 bucketPrefixes, buckets, shortStringIndices, bucketTries,
                 stringIndex, wpc, wbucket, wpos, wtrie, started, finished,
                 query, tries2, allocator, writeLog, installed, undefined>>

\* the run of bucket prefixes the next iteration of the while loop merges:
\* its shortened prefix, its exclusive end index and the keys of its members
CoarseBucket ==
  LET length == Len(bucketPrefixes[1]) - 1
      coarseBucketPrefix ==
        SubSeq(bucketPrefixes[coarseBucketBeginIndex + 1], 1, length)
      coarseBucketEndIndex ==
        scanEnd(bucketPrefixes, coarseBucketBeginIndex + 1, coarseBucketPrefix, length)
  IN  [coarseBucketPrefix |-> coarseBucketPrefix,
       coarseBucketEndIndex |-> coarseBucketEndIndex,
       keys |-> [k \in 1..(coarseBucketEndIndex - coarseBucketBeginIndex) |->
                   bucketPrefixes[coarseBucketBeginIndex + k][length + 1]]]

\* one iteration of the while loop: a run is found and merged into a new trie
CoarsenRun ==
  /\ pc = "scan"
  /\ coarseBucketBeginIndex < Len(bucketTries)
  /\ LET t == TrieOfTries(heap, bucketTries, coarseBucketBeginIndex, CoarseBucket.keys)
     IN  /\ heap' = t.heap
         /\ bucketTries' = t.tries
         /\ coarseTries' = Append(coarseTries, t.root)
  /\ coarseBucketPrefixes' = Append(coarseBucketPrefixes, CoarseBucket.coarseBucketPrefix)
  /\ coarseBucketBeginIndex' = CoarseBucket.coarseBucketEndIndex
  /\ UNCHANGED nodeCall
  /\ thread' = MainThread
  /\ UNCHANGED <<strings, parallelPrefixLength, maxThreads, pc, m_rootNode,
                 bucketPrefixes, buckets, shortStringIndices, coarsePrefixLength,
                 stringIndex, wpc, wbucket, wpos, wtrie, started, finished,
                 query, tries2, allocator, writeLog, rounds, installed, undefined>>

\* the while loop has ended: the coarse lists are moved into the caller's
CoarsenEnd ==
  /\ pc = "scan"
  /\ coarseBucketBeginIndex >= Len(bucketTries)
  /\ bucketPrefixes' = coarseBucketPrefixes
  /\ bucketTries' = coarseTries
  /\ heap' = destroyTries(heap, bucketTries, 1)
  /\ coarseBucketPrefixes' = <<>>
  /\ coarseTries' = <<>>
  /\ coarseBucketBeginIndex' = 0
  /\ pc' = "coarsen"
  /\ UNCHANGED nodeCall
  /\ thread' = MainThread
  /\ UNCHANGED <<strings, parallelPrefixLength, maxThreads, m_rootNode, buckets,
                 shortStringIndices, coarsePrefixLength, stringIndex, wpc, wbucket,
                 wpos, wtrie, started, finished, query, tries2, allocator,
                 writeLog, rounds, installed, undefined>>

AfterInstall == IF shortStringIndices = <<>> THEN "done" ELSE "short"

\* *this = std::move(bucketTries[0U]): the root this trie owned is destroyed
Install ==
  /\ pc = "coarsen"
  /\ coarsePrefixLength = 0
  /\ bucketTries # <<>>
  /\ m_rootNode' = bucketTries[1]
  /\ bucketTries' = [bucketTries EXCEPT ![1] = NULL]
  /\ heap' = destroy(heap, m_rootNode)
  /\ installed' = TRUE
  /\ pc' = AfterInstall
  /\ stringIndex' = 0
  /\ UNCHANGED <<scanVars, nodeCall>>
  /\ thread' = MainThread
  /\ UNCHANGED <<strings, parallelPrefixLength, maxThreads, bucketPrefixes,
                 buckets, shortStringIndices, coarsePrefixLength, wpc, wbucket,
                 wpos, wtrie, started, finished, query, tries2, allocator,
                 writeLog, rounds, undefined>>

\* bucketTries[0U] of an empty vector is undefined behaviour: the read
\* through the vector's null data pointer stops the process ...
InstallFault ==
  /\ pc = "coarsen"
  /\ coarsePrefixLength = 0
  /\ bucketTries = <<>>
  /\ pc' = "fault"
  /\ undefined' = TRUE
  /\ thread' = MainThread
  /\ UNCHANGED <<strings, parallelPrefixLength, maxThreads, heap, m_rootNode,
                 stringIndex, query, tries2, buildVars>>

\* ... or it yields a trie that owns no root, which is moved into this one
InstallGarbage ==
  /\ pc = "coarsen"
  /\ coarsePrefixLength = 0
  /\ bucketTries = <<>>
  /\ m_rootNode' = NULL
  /\ heap' = destroy(heap, m_rootNode)
  /\ installed' = TRUE
  /\ undefined' = TRUE
  /\ pc' = AfterInstall
  /\ stringIndex' = 0
  /\ UNCHANGED <<scanVars, nodeCall>>
  /\ thread' = MainThread
  /\ UNCHANGED <<strings, parallelPrefixLength, maxThreads, bucketPrefixes,
                 buckets, shortStringIndices, bucketTries, coarsePrefixLength,
                 wpc, wbucket, wpos, wtrie, started, finished, query, tries2,
                 allocator, writeLog, rounds>>

\* the loop over shortStringIndices; stringIndex is the position in the list
InsertShort ==
  /\ pc = "short"
  /\ m_rootNode # NULL
  /\ heap' = insertString(heap, m_rootNode, strings,
                          shortStringIndices[stringIndex + 1], 0)
  /\ stringIndex' = stringIndex + 1
  /\ pc' = IF stringIndex + 1 < Len(shortStringIndices) THEN "short" ELSE "done"
  /\ UNCHANGED allocator
  /\ UNCHANGED <<scanVars, nodeCall>>
  /\ thread' = MainThread
  /\ UNCHANGED <<strings, parallelPrefixLength, maxThreads, m_rootNode, query,
                 tries2, undefined, bucketPrefixes, buckets, shortStringIndices,
                 bucketTries, coarsePrefixLength, wpc, wbucket, wpos, wtrie,
                 started, finished, writeLog, rounds, installed>>

\* insertString or searchPrefix through a null m_rootNode
NullRoot ==
  /\ pc \in {"short", "done"}
  /\ m_rootNode = NULL
  /\ pc' = "fault"
  /\ thread' = MainThread
  /\ UNCHANGED <<strings, parallelPrefixLength, maxThreads, heap, m_rootNode,
                 stringIndex, query, tries2, undefined, buildVars>>

(***************************************************************************)
(* searchPrefix on the constructed trie.                                   *)
(***************************************************************************)
Search(prefix) ==
  /\ pc = "done"
  /\ m_rootNode # NULL
  /\ LET call == searchPrefixCall(heap, m_rootNode, prefix)
     IN  /\ heap' = call.heap
         /\ query' = [prefix |-> prefix, stringIndices |-> call.stringIndices,
                      calls |-> Min(query.calls + 1, 2)]
  /\ thread' = MainThread
  /\ UNCHANGED <<strings, parallelPrefixLength, maxThreads, pc, m_rootNode,
                 stringIndex, tries2, undefined, buildVars>>

Next ==
  \/ BeginSequential
  \/ InsertNext
  \/ BeginParallel
  \/ \E w \in Team : \E b \in 1..Len(buckets) : TaskStart(w, b)
  \/ \E w \in Team : TaskInsert(w)
  \/ \E w \in Team : TaskStore(w)
  \/ Join
  \/ Coarsen
  \/ CoarsenRun
  \/ CoarsenEnd
  \/ Install
  \/ InstallFault
  \/ InstallGarbage
  \/ InsertShort
  \/ NullRoot
  \/ \E prefix \in Prefixes : Search(prefix)

Spec == Init /\ [][Next]_vars

(***************************************************************************)
(* Scheduling.  The constructing thread runs on; each thread of the OpenMP *)
(* team that has a loop iteration to start or to go on with runs on too.   *)
(***************************************************************************)
\* the runs of the constructor that take the parallel branch
InitBulk == Init /\ ~Sequential

NextBulk ==
  \/ BeginParallel
  \/ \E w \in Team : \E b \in 1..Len(buckets) : TaskStart(w, b)
  \/ \E w \in Team : TaskInsert(w)
  \/ \E w \in Team : TaskStore(w)
  \/ Join
  \/ Coarsen
  \/ CoarsenRun
  \/ CoarsenEnd
  \/ Install
  \/ InstallFault
  \/ InstallGarbage
  \/ InsertShort
  \/ NullRoot

\* the steps of thread w in the parallel loop
Worker(w) ==
  /\ w \in Team
  /\ \/ \E b \in 1..Len(buckets) : TaskStart(w, b)
     \/ TaskInsert(w)
     \/ TaskStore(w)

\* the steps of the constructor after the parallel loop
AfterLoop ==
  \/ Join
  \/ Coarsen \/ CoarsenRun \/ CoarsenEnd
  \/ Install \/ InstallFault \/ InstallGarbage
  \/ InsertShort \/ NullRoot

\* The constructing thread runs on, and so does every thread of the team
\* that has a loop iteration to start or to go on with.  The first conjunct
\* is WF_vars(BeginParallel) with ENABLED <<BeginParallel>>_vars written
\* out: in a run of the parallel branch the step is enabled exactly while
\* pc = "start".
Fairness ==
  /\ []<>(pc # "start") \/ []<><<BeginParallel>>_vars
  /\ WF_vars(AfterLoop)
  /\ \A w \in Threads : WF_vars(Worker(w))

SpecFair == InitBulk /\ [][NextBulk]_vars /\ Fairness

(***************************************************************************)
(* The insertion-order runs: two empty tries, Trie(), on one heap, each    *)
(* filled by insertString calls in an order of its own.  tries2.root are   *)
(* the two roots, tries2.inserted the indices each trie holds so far.  The *)
(* nodes of trie t are allocated in arena t.                               *)
(***************************************************************************)
\* Trie() twice
TwoEmptyTries ==
  LET h1 == makeNode(InArena(EmptyHeap, 1))
      h2 == makeNode(InArena(h1, 2))
  IN  [heap |-> InArena(h2, 0),
       root |-> <<NextId(InArena(EmptyHeap, 1)), NextId(InArena(h1, 2))>>]

NoDuplicates(strs) ==
  \A i, j \in 1..Len(strs) : strs[i] = strs[j] => i = j

InitOrder ==
  /\ strings \in {strs \in Inputs : NoDuplicates(strs)}
  /\ parallelPrefixLength = 0
  /\ maxThreads = 1
  /\ pc = "order"
  /\ heap = TwoEmptyTries.heap
  /\ m_rootNode = NULL
  /\ tries2 = [root |-> TwoEmptyTries.root, inserted |-> <<{}, {}>>]
  /\ InitCommon

InsertInto(t, index) ==
  /\ pc = "order"
  /\ index \in (0..(Len(strings) - 1)) \ tries2.inserted[t]
  /\ heap' = InArena(insertString(InArena(heap, t), tries2.root[t], strings,
                                  index, 0), 0)
  /\ tries2' = [tries2 EXCEPT !.inserted[t] = @ \cup {index}]
  /\ UNCHANGED <<strings, parallelPrefixLength, maxThreads, pc, m_rootNode,
                 stringIndex, query, thread, undefined, buildVars>>

NextOrder == \E t \in 1..2 : \E index \in 0..(MaxStrings - 1) : InsertInto(t, index)

SpecOrder == InitOrder /\ [][NextOrder]_vars

(***************************************************************************)
(* The runs on one node: a node as std::make_unique<Node>() returns it,    *)
(* m_rootNode here, and up to MaxCalls calls of getOrCreateChildNode and   *)
(* setChildNode on it.                                                     *)
(***************************************************************************)
InitNode ==
  /\ strings = <<>>
  /\ parallelPrefixLength = 0
  /\ maxThreads = 1
  /\ pc = "node"
  /\ heap = makeNode(EmptyHeap)
  /\ m_rootNode = NextId(EmptyHeap)
  /\ tries2 = <<>>
  /\ InitCommon

\* The node handed to setChildNode: a new node, empty or, as the root of a
\* trie that is merged, with a child that has an index.
GivenNode(h, withChild, key) ==
  [heap |-> IF withChild THEN insertFrom(makeNode(h), NextId(h), <<key>>, 0, 0)
            ELSE makeNode(h),
   node |-> NextId(h)]

GetOrCreateChild(key) ==
  /\ pc = "node"
  /\ nodeCall.calls < MaxCalls
  /\ LET r == getOrCreateChildNode(heap, m_rootNode, key)
     IN  /\ heap' = r.heap
         /\ nodeCall' = [op |-> "getOrCreateChildNode", key |-> key, node |-> NULL,
                         tree |-> <<>>, result |-> r.node,
                         calls |-> nodeCall.calls + 1]
  /\ UNCHANGED <<strings, parallelPrefixLength, maxThreads, pc, m_rootNode,
                 bucketPrefixes, buckets, shortStringIndices, bucketTries,
                 coarsePrefixLength, stringIndex, wpc, wbucket, wpos, wtrie,
                 started, finished, query, tries2, thread, allocator, writeLog,
                 rounds, installed, undefined, scanVars>>

SetChild(key, withChild) ==
  /\ pc = "node"
  /\ nodeCall.calls < MaxCalls
  /\ LET given == GivenNode(heap, withChild, key)
     IN  /\ heap' = setChildNode(given.heap, m_rootNode, key, given.node)
         /\ nodeCall' = [op |-> "setChildNode", key |-> key, node |-> given.node,
                         tree |-> TreeOf(given.heap, given.node), result |-> NULL,
                         calls |-> nodeCall.calls + 1]
  /\ UNCHANGED <<strings, parallelPrefixLength, maxThreads, pc, m_rootNode,
                 bucketPrefixes, buckets, shortStringIndices, bucketTries,
                 coarsePrefixLength, stringIndex, wpc, wbucket, wpos, wtrie,
                 started, finished, query, tries2, thread, allocator, writeLog,
                 rounds, installed, undefined, scanVars>>

NextNode ==
  \/ \E key \in Alphabet : GetOrCreateChild(key)
  \/ \E key \in Alphabet : \E withChild \in BOOLEAN : SetChild(key, withChild)

SpecNode == InitNode /\ [][NextNode]_vars

(***************************************************************************)
(* The runs of bucketSortStrings alone: one call, on up to MaxSortStrings  *)
(* strings of bytes from the whole range of unsigned char, for prefix      *)
(* lengths up to and beyond sizeof(size_t).                                *)
(***************************************************************************)
SortBytes == {0, 97, Radix - 1}

\* short strings of any bytes, and strings of WordBytes and WordBytes + 1
\* bytes: a first byte followed by copies of a second
SortStrings ==
  SeqsUpTo(SortBytes, MaxLen)
    \cup {[k \in 1..n |-> IF k = 1 THEN first ELSE rest] :
            n \in {WordBytes, WordBytes + 1}, first \in SortBytes, rest \in SortBytes}

SortLengths == {0, 1, MaxPrefixLength, WordBytes - 1, WordBytes, WordBytes + 1}

InitSort ==
  /\ strings \in SeqsUpTo(SortStrings, MaxSortStrings)
  /\ parallelPrefixLength \in SortLengths
  /\ maxThreads = MaxThreads
  /\ pc = "sort"
  /\ heap = makeNode(EmptyHeap)
  /\ m_rootNode = NextId(EmptyHeap)
  /\ tries2 = <<>>
  /\ InitCommon

\* the call returns: every allBucketVectors[bucketIndex] was inside the table
BucketSort ==
  /\ pc = "sort"
  /\ LET sorted == bucketSortStrings(strings, parallelPrefixLength)
     IN  /\ ~sorted.outOfRange
         /\ bucketPrefixes' = sorted.bucketPrefixes
         /\ buckets' = sorted.buckets
         /\ shortStringIndices' = sorted.shortStringIndices
  /\ pc' = "sorted"
  /\ UNCHANGED <<strings, parallelPrefixLength, maxThreads, heap, m_rootNode,
                 bucketTries, coarsePrefixLength, stringIndex, wpc, wbucket, wpos,
                 wtrie, started, finished, query, tries2, thread, allocator,
                 writeLog, rounds, installed, undefined, scanVars, nodeCall>>

\* allBucketVectors[bucketIndex].push_back outside the table is undefined
\* behaviour: the write stops the process ...
BucketSortFault ==
  /\ pc = "sort"
  /\ bucketSortStrings(strings, parallelPrefixLength).outOfRange
  /\ pc' = "fault"
  /\ undefined' = TRUE
  /\ UNCHANGED <<strings, parallelPrefixLength, maxThreads, heap, m_rootNode,
                 stringIndex, query, tries2, thread, buildVars>>

\* ... or it lands in memory outside the table, and the call returns what
\* the loop over the table emits
BucketSortGarbage ==
  /\ pc = "sort"
  /\ LET sorted == bucketSortStrings(strings, parallelPrefixLength)
     IN  /\ sorted.outOfRange
         /\ bucketPrefixes' = sorted.bucketPrefixes
         /\ buckets' = sorted.buckets
         /\ shortStringIndices' = sorted.shortStringIndices
  /\ pc' = "sorted"
  /\ undefined' = TRUE
  /\ UNCHANGED <<strings, parallelPrefixLength, maxThreads, heap, m_rootNode,
                 bucketTries, coarsePrefixLength, stringIndex, wpc, wbucket, wpos,
                 wtrie, started, finished, query, tries2, thread, allocator,
                 writeLog, rounds, installed, scanVars, nodeCall>>

NextSort == BucketSort \/ BucketSortFault \/ BucketSortGarbage

SpecSort == InitSort /\ [][NextSort]_vars

(***************************************************************************)
(* Node::getSizeInMemory.  The tree it is called on is given by its fan-   *)
(* outs: fanOut[d] is the number of children of every node at depth d - 1, *)
(* and the nodes at depth Len(fanOut) are leaves.  <<6, 256, 256, 256>> is *)
(* the trie of the strings of four bytes with six first bytes.             *)
(***************************************************************************)
\* sizeof(Node): a std::vector and a size_t; sizeof(KeyChildNodePair): an
\* unsigned char and a std::unique_ptr, padded (x86-64)
SizeofNode == 32
SizeofKeyChildNodePair == 16

\* sizeof(unsigned int), the type of the literal 0U
UIntBytes == 4

ZeroWord == WordOfByte(0)

\* the conversion of a size_t to unsigned int, read as a size_t again
TruncateToUInt(w) == SubSeq(w, 1, UIntBytes) \o [k \in 1..(WordBytes - UIntBytes) |-> 0]

\* std::accumulate(first, last, init, op) with init an unsigned int and op
\* the lambda: init = op(init, *first) for each child, where op widens init
\* to size_t, adds the child's getSizeInMemory() and returns a size_t, and
\* the assignment converts it to the type of init
\* (the loop over first..last, written as the loop over its first half
\* followed by the loop over its second half from the value the first half
\* has left in init; the comparison has the first half evaluated first)
RECURSIVE accumulate(_, _, _, _)
accumulate(results, first, last, init) ==
  IF first > last THEN init
  ELSE IF first = last THEN TruncateToUInt(AddWord(init, results[first]))
  ELSE LET middle == (first + last) \div 2
           left == accumulate(results, first, middle, init)
       IN  IF left = init
           THEN accumulate(results, middle + 1, last, init)
           ELSE accumulate(results, middle + 1, last, left)

RECURSIVE getSizeInMemory(_)
getSizeInMemory(fanOut) ==
  LET size == IF fanOut = <<>> THEN 0 ELSE Head(fanOut)
      results == IF size = 0 THEN <<>>
                 ELSE LET result == getSizeInMemory(Tail(fanOut))
                      IN  [k \in 1..size |-> result]
  IN  AddWord(AddWord(WordOfByte(SizeofNode),
                      MulWord(WordOfByte(SizeofKeyChildNodePair), size)),
              accumulate(results, 1, Len(results), ZeroWord))

\* the numbers of children of a node in the runs: few, and one for each
\* value of unsigned char
FanOuts == {1, 2, 6, Radix}

Shapes == SeqsUpTo(FanOuts, MaxDepth)

InitSize ==
  /\ strings = <<>>
  /\ parallelPrefixLength = 0
  /\ maxThreads = 1
  /\ pc = "size"
  /\ heap = makeNode(EmptyHeap)
  /\ m_rootNode = NextId(EmptyHeap)
  /\ tries2 = <<>>
  /\ bucketPrefixes = <<>> /\ buckets = <<>> /\ shortStringIndices = <<>>
  /\ bucketTries = <<>>
  /\ coarsePrefixLength = 0
  /\ coarseBucketPrefixes = <<>> /\ coarseTries = <<>>
  /\ coarseBucketBeginIndex = 0
  /\ stringIndex = 0
  /\ wpc = [w \in Threads |-> "idle"]
  /\ wbucket = [w \in Threads |-> 0]
  /\ wpos = [w \in Threads |-> 0]
  /\ wtrie = [w \in Threads |-> NULL]
  /\ started = {} /\ finished = {}
  /\ query = NoQuery
  /\ \E fanOut \in Shapes : nodeCall = [NoCall EXCEPT !.tree = fanOut]
  /\ thread = MainThread
  /\ allocator = <<>>
  /\ writeLog = {}
  /\ rounds = 0
  /\ installed = FALSE
  /\ undefined = FALSE

\* trie.getRootNode().getSizeInMemory(): a const member function
GetSizeInMemory ==
  /\ pc = "size"
  /\ nodeCall.calls < MaxCalls
  /\ nodeCall' = [op |-> "getSizeInMemory", key |-> 0, node |-> m_rootNode,
                  tree |-> nodeCall.tree, result |-> getSizeInMemory(nodeCall.tree),
                  calls |-> nodeCall.calls + 1]
  /\ UNCHANGED <<strings, parallelPrefixLength, maxThreads, pc, heap, m_rootNode,
                 bucketPrefixes, buckets, shortStringIndices, bucketTries,
                 coarsePrefixLength, stringIndex, wpc, wbucket, wpos, wtrie,
                 started, finished, query, tries2, thread, allocator, writeLog,
                 rounds, installed, undefined, scanVars>>

NextSize == GetSizeInMemory

SpecSize == InitSize /\ [][NextSize]_vars

(***************************************************************************)
(* The properties.                                                         *)
(***************************************************************************)
\* the brute-force scan of testSearchPrefix: the indices of the strings that
\* start with the prefix
LinearScan(strs, prefix) ==
  {index \in 0..(Len(strs) - 1) : StartsWith(strs[index + 1], prefix)}

\* the constructor has returned and this trie owns a root
Built == pc = "done" /\ m_rootNode # NULL

\* what searchPrefix returns on the constructed trie
Found(prefix) == searchPrefix(heap, m_rootNode, prefix)

\* the trie built by inserting the strings one by one in input order
SequentialTrie == TrieOfIndices(strings, [k \in 1..Len(strings) |-> k - 1], 0)

IsOneToOne(s) == \A i, j \in 1..Len(s) : s[i] = s[j] => i = j

\* C1: for pairwise distinct input strings, on the trie built by inserting
\* the strings one by one in input order (parallelPrefixLength = 0, or a
\* single available thread), searchPrefix returns for every prefix exactly
\* the set of indices of the strings that start with the prefix, as the
\* linear scan computes it; so does every searchPrefix call made.
C1_SequentialSearchIsLinearScan ==
  (Built /\ Sequential /\ NoDuplicates(strings)) =>
     /\ \A prefix \in Prefixes :
          Range(Found(prefix)) = LinearScan(strings, prefix)
     /\ query.calls > 0 =>
          Range(query.stringIndices) = LinearScan(strings, query.prefix)

C1_Witness ==
  /\ Built /\ Sequential /\ NoDuplicates(strings)
  /\ Len(strings) = MaxStrings
  /\ parallelPrefixLength > 0
  /\ query.calls > 0
  /\ Len(query.prefix) = 1
  /\ Cardinality(Range(query.stringIndices)) = 2

\* C2: for every input collection, every parallelPrefixLength and every
\* thread count, the parallel build ends with a trie whose searchPrefix
\* returns, for every prefix, the same set of indices as the trie built by
\* sequential insertion of the same collection.
C2_ParallelEqualsSequential ==
  (~Sequential /\ pc \in {"done", "fault"}) =>
     /\ Built
     /\ \A prefix \in Prefixes :
          Range(Found(prefix)) =
            Range(searchPrefix(SequentialTrie.heap, SequentialTrie.m_rootNode, prefix))

\* What does hold of the parallel build: whenever some string has at least
\* parallelPrefixLength bytes, the build ends, and searchPrefix on its trie
\* returns what it returns on the sequentially built trie.
ParallelEqualsSequentialWhenBucketed ==
  (/\ ~Sequential
   /\ pc \in {"done", "fault"}
   /\ \E k \in 1..Len(strings) : Len(strings[k]) >= parallelPrefixLength) =>
     /\ Built
     /\ \A prefix \in Prefixes :
          Range(Found(prefix)) =
            Range(searchPrefix(SequentialTrie.heap, SequentialTrie.m_rootNode, prefix))

\* C3: constructing a trie from the empty collection succeeds for every
\* parallelPrefixLength and thread count: no fault, the root is non-null
\* and every searchPrefix query returns nothing.
C3_EmptyInputConstructs ==
  strings = <<>> =>
     /\ pc # "fault"
     /\ pc \in {"short", "done"} =>
          /\ m_rootNode # NULL
          /\ \A prefix \in Prefixes : Found(prefix) = <<>>

\* the indices under which the byte sequence of string number index occurs
SameBytes(index) ==
  {other \in 0..(Len(strings) - 1) : strings[other + 1] = strings[index + 1]}

Largest(S) == CHOOSE x \in S : \A y \in S : y <= x

\* C4: when a byte sequence occurs under two or more indices, the build
\* (sequential or parallel) ends with a trie on which searchPrefix of any
\* prefix of that sequence returns the largest of those indices and none of
\* the others.
C4_LastDuplicateWins ==
  \A index \in 0..(Len(strings) - 1) :
    (Cardinality(SameBytes(index)) >= 2 /\ pc \in {"done", "fault"}) =>
       /\ Built
       /\ \A prefix \in Prefixes :
            StartsWith(strings[index + 1], prefix) =>
              Range(Found(prefix)) \cap SameBytes(index) = {Largest(SameBytes(index))}

\* What does hold of duplicates: on every trie a build ends with,
\* searchPrefix of any prefix of a repeated byte sequence returns the
\* largest of its indices and none of the others.
LastDuplicateWinsWhenBuilt ==
  \A index \in 0..(Len(strings) - 1) :
    (Cardinality(SameBytes(index)) >= 2 /\ Built) =>
       \A prefix \in Prefixes :
         StartsWith(strings[index + 1], prefix) =>
           Range(Found(prefix)) \cap SameBytes(index) = {Largest(SameBytes(index))}

\* the number of leading bytes of the prefix that some input string starts with
Matched(prefix) ==
  Largest({k \in 0..Len(prefix) :
             k = 0 \/ LinearScan(strings, SubSeq(prefix, 1, k)) # {}})

\* C5: on a constructed trie searchPrefix returns the empty result when no
\* node exists for the prefix (a prefix no input string starts with, any
\* prefix but the empty one on an empty trie), and the walk of
\* getDescendantNodeForPrefix returns none at the first byte whose child is
\* absent: the bytes it has looked up are the bytes some string starts
\* with, and one more.
C5_AbsentPrefixIsEmptyResult ==
  Built =>
    /\ \A prefix \in Prefixes :
         LET walk == descend(heap, m_rootNode, prefix, 1)
         IN  /\ walk.node = NULL <=> (prefix # <<>> /\ LinearScan(strings, prefix) = {})
             /\ walk.node = NULL =>
                  /\ Found(prefix) = <<>>
                  /\ walk.looked = Matched(prefix) + 1
    /\ (query.calls > 0 /\ query.prefix # <<>>
          /\ LinearScan(strings, query.prefix) = {}) => query.stringIndices = <<>>

C5_Witness ==
  /\ Built
  /\ Len(strings) = MaxStrings
  /\ query.calls > 0
  /\ Len(query.prefix) = MaxLen
  /\ \A k \in 1..Len(strings) : Len(strings[k]) < MaxLen
  /\ descend(heap, m_rootNode, query.prefix, 1).node = NULL
  /\ descend(heap, m_rootNode, query.prefix, 1).looked = 1
  /\ query.stringIndices = <<>>

\* C6: on every constructed trie the sequence searchPrefix returns holds no
\* index twice, and for an input without duplicate strings searchPrefix("")
\* returns every index 0..N-1 exactly once.
C6_NoIndexTwice ==
  Built =>
    /\ \A prefix \in Prefixes : IsOneToOne(Found(prefix))
    /\ query.calls > 0 => IsOneToOne(query.stringIndices)
    /\ NoDuplicates(strings) =>
         /\ Range(Found(<<>>)) = 0..(Len(strings) - 1)
         /\ Len(Found(<<>>)) = Len(strings)

C6_Witness ==
  /\ Built /\ ~Sequential
  /\ NoDuplicates(strings)
  /\ Len(strings) = MaxStrings
  /\ shortStringIndices # <<>>
  /\ query.calls > 0
  /\ query.prefix = <<>>
  /\ Len(query.stringIndices) = MaxStrings

OrderComplete ==
  /\ pc = "order"
  /\ \A t \in 1..2 : tries2.inserted[t] = 0..(Len(strings) - 1)

\* C7: for an input without duplicate strings, two tries filled with the
\* same (byte sequence, index) pairs by insertString in any two orders
\* return from searchPrefix the same set of indices for every prefix.
C7_InsertionOrderIrrelevant ==
  OrderComplete =>
    \A prefix \in Prefixes :
      Range(searchPrefix(heap, tries2.root[1], prefix)) =
        Range(searchPrefix(heap, tries2.root[2], prefix))

\* two completed tries whose children are in different orders
C7_Witness ==
  /\ OrderComplete
  /\ Len(strings) = MaxStrings
  /\ TreeOf(heap, tries2.root[1]) # TreeOf(heap, tries2.root[2])
  /\ searchPrefix(heap, tries2.root[1], <<>>) # searchPrefix(heap, tries2.root[2], <<>>)

BucketTrie(b) == TrieOfIndices(strings, buckets[b], parallelPrefixLength)

AllTasksEnded ==
  /\ finished = 1..Len(buckets)
  /\ \A w \in Team : wpc[w] = "idle" /\ wtrie[w] = NULL

\* C10: the phases of the parallel build are ordered: coarsening starts
\* only after every bucket task has ended; coarsening, the installation of
\* the merged trie and the short-string insertion are steps of the
\* constructing thread; and a short string is inserted only after all
\* parallelPrefixLength coarsening rounds and the installation.
C10_PhasesInOrder ==
  /\ []((~Sequential /\ pc \in {"coarsen", "scan", "short", "done"}) => AllTasksEnded)
  /\ []((~Sequential /\ (pc = "short" \/ stringIndex > 0)) =>
          rounds = parallelPrefixLength /\ installed)
  /\ [][(rounds' # rounds \/ installed' # installed
           \/ (~Sequential /\ stringIndex' # stringIndex)) =>
          thread' = MainThread /\ AllTasksEnded]_vars
  /\ [][(~Sequential /\ stringIndex' # stringIndex) =>
          rounds = parallelPrefixLength /\ (installed \/ installed')]_vars

C10_Witness ==
  /\ pc = "done" /\ ~Sequential /\ ~undefined
  /\ parallelPrefixLength = MaxPrefixLength
  /\ rounds = parallelPrefixLength
  /\ installed
  /\ Len(buckets) >= 2
  /\ stringIndex = Len(shortStringIndices)
  /\ stringIndex > 0

\* the constructor has returned, or the process has stopped with a fault
Ended == pc \in {"done", "fault"}

\* C11: under every fair schedule every run of Trie(strings,
\* parallelPrefixLength) ends; every loop iteration of createBucketTries
\* that has begun ends; the parallel branch calls coarsenBucketTries
\* exactly parallelPrefixLength times, one call at a time; and each
\* iteration of the while loop of coarsenBucketTries moves
\* coarseBucketBeginIndex strictly forward, never past the end of the list,
\* the loop ending when the index is the length of the list.
C11_ConstructionTerminates ==
  /\ <>Ended
  /\ (pc = "parallel") ~> AllTasksEnded
  /\ []((Ended /\ ~Sequential) => rounds = parallelPrefixLength)
  /\ [][rounds' # rounds =>
          rounds' = rounds + 1 /\ rounds' <= parallelPrefixLength]_vars
  /\ [][(pc = "scan" /\ pc' = "scan") =>
          /\ coarseBucketBeginIndex' > coarseBucketBeginIndex
          /\ coarseBucketBeginIndex' <= Len(bucketPrefixes)]_vars
  /\ [][(pc = "scan" /\ pc' # "scan") =>
          coarseBucketBeginIndex = Len(bucketPrefixes)]_vars

\* in the first of two rounds, a run of two prefixes merged, one prefix left
C11_Witness ==
  /\ pc = "scan"
  /\ parallelPrefixLength = MaxPrefixLength
  /\ rounds = 1
  /\ Len(bucketPrefixes) = 3
  /\ coarseBucketBeginIndex = 2

\* C12: in the parallel branch, when the parallelPrefixLength coarsening
\* rounds have run, bucketTries holds exactly one trie, so that reading
\* bucketTries[0] is in range, for every input collection (the empty one
\* and one with only strings shorter than parallelPrefixLength included).
C12_OneTrieAfterCoarsening ==
  (~Sequential /\ pc = "coarsen" /\ coarsePrefixLength = 0) =>
     Len(bucketTries) = 1

\* What does hold after the coarsening rounds: bucketTries holds one trie
\* when some string has at least parallelPrefixLength bytes, and none
\* otherwise.
OneTrieWhenBucketed ==
  (~Sequential /\ pc = "coarsen" /\ coarsePrefixLength = 0) =>
     Len(bucketTries) =
       IF \E k \in 1..Len(strings) : Len(strings[k]) >= parallelPrefixLength
       THEN 1 ELSE 0

\* p comes before q in the lexicographic order of unsigned bytes
LexLess(p, q) ==
  \E k \in 1..Min(Len(p), Len(q)) :
    p[k] < q[k] /\ \A j \in 1..(k - 1) : p[j] = q[j]

IsAscending(s) == \A i, j \in 1..Len(s) : i < j => s[i] < s[j]

\* the buckets (by position) that hold the index
BucketsOf(index) == {b \in 1..Len(buckets) : index \in Range(buckets[b])}

\* C13: what bucketSortStrings leaves in bucketPrefixes, buckets and
\* shortStringIndices partitions the indices 0..N-1: an index whose string
\* has at least parallelPrefixLength bytes (exactly that many included) is
\* in exactly one bucket, the one whose prefix is the first
\* parallelPrefixLength bytes of the string, and not among the short ones;
\* an index whose string is shorter is among the short ones and in no
\* bucket; no list holds an index twice or an index outside 0..N-1; no
\* bucket is empty; the bucket prefixes are strictly ascending in
\* lexicographic byte order; each bucket and shortStringIndices is ascending.
C13_BucketSortPartitions ==
  pc = "parallel" =>
    /\ Len(bucketPrefixes) = Len(buckets)
    /\ \A index \in 0..(Len(strings) - 1) :
         IF Len(strings[index + 1]) >= parallelPrefixLength
         THEN /\ Cardinality(BucketsOf(index)) = 1
              /\ \A b \in BucketsOf(index) :
                   bucketPrefixes[b] = SubSeq(strings[index + 1], 1, parallelPrefixLength)
              /\ index \notin Range(shortStringIndices)
         ELSE /\ BucketsOf(index) = {}
              /\ index \in Range(shortStringIndices)
    /\ \A b \in 1..Len(buckets) :
         /\ buckets[b] # <<>>
         /\ Range(buckets[b]) \subseteq 0..(Len(strings) - 1)
         /\ IsAscending(buckets[b])
    /\ Range(shortStringIndices) \subseteq 0..(Len(strings) - 1)
    /\ IsAscending(shortStringIndices)
    /\ \A b, c \in 1..Len(bucketPrefixes) :
         b < c => LexLess(bucketPrefixes[b], bucketPrefixes[c])

\* two buckets of strings of exactly parallelPrefixLength bytes, and a
\* short string
C13_Witness ==
  /\ pc = "parallel"
  /\ parallelPrefixLength = MaxPrefixLength
  /\ Len(buckets) = 2
  /\ shortStringIndices # <<>>
  /\ \E b \in 1..Len(buckets) : \E i \in Range(buckets[b]) :
       Len(strings[i + 1]) = parallelPrefixLength

\* a list of prefixes of n bytes each, strictly ascending (so without a
\* repeated prefix)
StrictlySorted(prefixes, n) ==
  /\ \A b \in 1..Len(prefixes) : Len(prefixes[b]) = n
  /\ \A b, c \in 1..Len(prefixes) : b < c => LexLess(prefixes[b], prefixes[c])

\* the first n bytes of a prefix
Shortened(prefix, n) == SubSeq(prefix, 1, n)

\* C14: every coarsening round starts with a list of bucket prefixes of
\* one length k >= 1 that is strictly ascending, one trie per prefix.  Each
\* iteration of its while loop takes a maximal contiguous run of prefixes
\* with the same first k - 1 bytes and makes one trie for it, whose root
\* has no index and exactly one child per member of the run, in the order
\* of the run: its key is the member's k-th byte, the child is the node
\* that was the member's root, with its subtree as it was.  The prefixes
\* the round puts out have k - 1 bytes and are again strictly ascending,
\* at every point of the round and when it ends.
C14_CoarseningRound ==
  /\ [](/\ pc = "coarsen" =>
             /\ StrictlySorted(bucketPrefixes, coarsePrefixLength)
             /\ Len(bucketTries) = Len(bucketPrefixes)
        /\ pc = "scan" =>
             /\ coarsePrefixLength >= 0
             /\ StrictlySorted(bucketPrefixes, coarsePrefixLength + 1)
             /\ Len(bucketTries) = Len(bucketPrefixes)
             /\ StrictlySorted(coarseBucketPrefixes, coarsePrefixLength)
             /\ Len(coarseTries) = Len(coarseBucketPrefixes))
  /\ [][(pc = "scan" /\ pc' = "scan") =>
          LET n == coarsePrefixLength
              run == (coarseBucketBeginIndex + 1)..coarseBucketBeginIndex'
              coarse == Shortened(bucketPrefixes[coarseBucketBeginIndex + 1], n)
              root == coarseTries'[Len(coarseTries')]
              children == heap'.mem[root].m_keysAndChildNodes
          IN  /\ run # {}
              /\ \A b \in run : Shortened(bucketPrefixes[b], n) = coarse
              /\ \A b \in 1..Len(bucketPrefixes) :
                   Shortened(bucketPrefixes[b], n) = coarse => b \in run
              /\ coarseBucketPrefixes' = Append(coarseBucketPrefixes, coarse)
              /\ Len(coarseTries') = Len(coarseTries) + 1
              /\ root \notin DOMAIN heap.mem
              /\ heap'.mem[root].m_stringIndex = INVALID_STRING_INDEX
              /\ Len(children) = Cardinality(run)
              /\ \A i \in 1..Len(children) :
                   /\ children[i].first = bucketPrefixes[coarseBucketBeginIndex + i][n + 1]
                   /\ children[i].second = bucketTries[coarseBucketBeginIndex + i]
                   /\ children[i].second # NULL
                   /\ TreeOf(heap', children[i].second) = TreeOf(heap, children[i].second)
              /\ \A i, j \in 1..Len(children) :
                   children[i].first = children[j].first => i = j]_vars

\* a run of two tries merged, one of them with nodes below its root
C14_Witness ==
  /\ pc = "scan"
  /\ coarseTries # <<>>
  /\ Len(heap.mem[coarseTries[1]].m_keysAndChildNodes) = 2
  /\ \E i \in 1..2 :
       Len(heap.mem[heap.mem[coarseTries[1]].m_keysAndChildNodes[i].second]
             .m_keysAndChildNodes) > 0

\* The std::unique_ptr<Node> outside the nodes: m_rootNode of this trie, of
\* the tries in bucketTries and coarseTries, and of the trie each thread is
\* building.
RootSlots ==
  {<<"this", 0, 0>>}
    \cup {<<"bucketTries", k, 0>> : k \in 1..Len(bucketTries)}
    \cup {<<"coarseTries", k, 0>> : k \in 1..Len(coarseTries)}
    \cup {<<"task", w, 0>> : w \in Threads}

SlotValue(slot) ==
  CASE slot[1] = "this" -> m_rootNode
    [] slot[1] = "bucketTries" -> bucketTries[slot[2]]
    [] slot[1] = "coarseTries" -> coarseTries[slot[2]]
    [] slot[1] = "task" -> wtrie[slot[2]]

\* the entries <<"node", parent, k>> of m_keysAndChildNodes that hold the node
ChildEntries(id) ==
  UNION {{<<"node", parent, k>> :
            k \in {j \in 1..Len(heap.mem[parent].m_keysAndChildNodes) :
                     heap.mem[parent].m_keysAndChildNodes[j].second = id}} :
         parent \in DOMAIN heap.mem}

\* the std::unique_ptr<Node> that hold the node
Owners(id) == {slot \in RootSlots : SlotValue(slot) = id} \cup ChildEntries(id)

\* the nodes made in the loop iterations of createBucketTries
BucketBuilt == {id \in DOMAIN heap.mem : id > ArenaSize}

\* every pointer is null or points to a live node
NoDanglingPointer ==
  /\ \A slot \in RootSlots : SlotValue(slot) \in DOMAIN heap.mem \cup {NULL}
  /\ \A parent \in DOMAIN heap.mem :
       \A k \in 1..Len(heap.mem[parent].m_keysAndChildNodes) :
         heap.mem[parent].m_keysAndChildNodes[k].second \in DOMAIN heap.mem \cup {NULL}

\* C15: merging moves nodes and never copies them.  In every state of the
\* build every live node, so every node a bucket task built, is held by
\* exactly one std::unique_ptr (a trie's m_rootNode or one entry of one
\* parent node), no pointer dangles, and every node is below exactly one
\* root: no subtree is shared and there is no cycle.  An iteration of the
\* while loop of coarsenBucketTries leaves each member of the merged run
\* with a null root, and the root it held is a child of the new trie's
\* root.  From the end of the parallel loop to the installation the nodes
\* the tasks built stay the same nodes with the same contents, and the
\* installed trie holds each of them.
C15_MergeMovesOwnership ==
  /\ [](/\ NoDanglingPointer
        /\ \A id \in DOMAIN heap.mem : Cardinality(Owners(id)) = 1
        /\ \A id \in DOMAIN heap.mem :
             Cardinality({slot \in RootSlots :
                            id \in Subtree(heap, SlotValue(slot))}) = 1
        /\ (~Sequential /\ installed /\ m_rootNode # NULL) =>
             BucketBuilt \subseteq Subtree(heap, m_rootNode))
  /\ [][(pc = "scan" /\ pc' = "scan") =>
          \A b \in (coarseBucketBeginIndex + 1)..coarseBucketBeginIndex' :
            /\ bucketTries[b] # NULL
            /\ bucketTries'[b] = NULL
            /\ heap'.mem[coarseTries'[Len(coarseTries')]]
                  .m_keysAndChildNodes[b - coarseBucketBeginIndex].second
                 = bucketTries[b]]_vars
  /\ [][(pc \in {"coarsen", "scan"}) =>
          /\ BucketBuilt' = BucketBuilt
          /\ \A id \in BucketBuilt : heap'.mem[id] = heap.mem[id]]_vars

\* three tries merged in two rounds and installed
C15_Witness ==
  /\ pc = "done" /\ ~Sequential /\ installed /\ m_rootNode # NULL
  /\ rounds = MaxPrefixLength
  /\ Cardinality(BucketBuilt) >= 3
  /\ BucketBuilt \subseteq Subtree(heap, m_rootNode)

\* the keys of a node, in the order of m_keysAndChildNodes
KeysOf(h, id) ==
  [k \in 1..Len(h.mem[id].m_keysAndChildNodes) |-> h.mem[id].m_keysAndChildNodes[k].first]

\* the children under all keys but one are the same nodes with the same subtrees
OtherChildrenKept(h, g, id, key) ==
  \A other \in 0..(Radix - 1) :
    other # key =>
      /\ getChildNode(g, id, other) = getChildNode(h, id, other)
      /\ TreeOf(g, getChildNode(g, id, other)) = TreeOf(h, getChildNode(h, id, other))

\* C16: after any sequence of getOrCreateChildNode and setChildNode calls
\* on a node, no two entries of the node have the same key.
\* getOrCreateChildNode on a key that has a child returns that child and
\* changes nothing; on a key without one it appends an entry with a new
\* node without children and index, and returns that node.  setChildNode
\* on a key that has a child puts the given node, as it is, in the place of
\* that child, whose subtree is destroyed; on a new key it appends the
\* given node.  Either call leaves the children under all other keys the
\* same nodes with the same subtrees, and the keys in their order.
C16_OneChildPerKey ==
  /\ [](pc = "node" => IsOneToOne(KeysOf(heap, m_rootNode)))
  /\ [][(pc = "node" /\ nodeCall'.calls # nodeCall.calls) =>
          LET key == nodeCall'.key
              old == getChildNode(heap, m_rootNode, key)
              now == getChildNode(heap', m_rootNode, key)
          IN  /\ OtherChildrenKept(heap, heap', m_rootNode, key)
              /\ KeysOf(heap', m_rootNode) =
                   IF old # NULL THEN KeysOf(heap, m_rootNode)
                   ELSE Append(KeysOf(heap, m_rootNode), key)
              /\ nodeCall'.op = "getOrCreateChildNode" =>
                   /\ now = nodeCall'.result
                   /\ IF old # NULL
                      THEN nodeCall'.result = old /\ heap' = heap
                      ELSE /\ nodeCall'.result \notin DOMAIN heap.mem
                           /\ heap'.mem[nodeCall'.result] = NewNode
                           /\ DOMAIN heap'.mem = DOMAIN heap.mem \cup {nodeCall'.result}
              /\ nodeCall'.op = "setChildNode" =>
                   /\ now = nodeCall'.node
                   /\ TreeOf(heap', now) = nodeCall'.tree
                   /\ Subtree(heap, old) \cap DOMAIN heap'.mem = {}
                   /\ Subtree(heap', now) \cap DOMAIN heap.mem = {}]_vars

\* a child with a subtree replaced by setChildNode, next to another child
C16_Witness ==
  /\ pc = "node"
  /\ nodeCall.op = "setChildNode"
  /\ Len(KeysOf(heap, m_rootNode)) = 2
  /\ nodeCall.calls = MaxCalls - 1
  \* more nodes made than are alive: a subtree has been destroyed
  /\ heap.next[0] - 1 > Cardinality(DOMAIN heap.mem)
  /\ Len(heap.mem[nodeCall.node].m_keysAndChildNodes) = 0

\* the base-256 digits, least significant first, of 256 ** n; none when the
\* number does not fit a size_t
ExactPowerOf256(n) ==
  IF n < WordBytes THEN [k \in 1..WordBytes |-> IF k = n + 1 THEN 1 ELSE 0]
  ELSE <<>>

\* the base-256 digits, least significant first, of the big-endian value of
\* the first n bytes of the string; none when the number does not fit
BigEndianValue(string, n) ==
  IF n <= WordBytes THEN [k \in 1..WordBytes |-> IF k <= n THEN string[n - k + 1] ELSE 0]
  ELSE <<>>

\* the table and the keys of a call are as the exact arithmetic gives them
KeysFitTheTable ==
  /\ ~undefined
  /\ PowerOf256(parallelPrefixLength) = ExactPowerOf256(parallelPrefixLength)
  /\ \A k \in 1..Len(strings) :
       Len(strings[k]) >= parallelPrefixLength =>
         LET bucketIndex == bucketIndexOf(strings[k], parallelPrefixLength)
         IN  /\ bucketIndex = BigEndianValue(strings[k], parallelPrefixLength)
             /\ WordLess(bucketIndex, PowerOf256(parallelPrefixLength))
             /\ prefixOfBucketIndex(bucketIndex, parallelPrefixLength)
                  = SubSeq(strings[k], 1, parallelPrefixLength)
             /\ \E b \in 1..Len(bucketPrefixes) :
                  /\ bucketPrefixes[b] = SubSeq(strings[k], 1, parallelPrefixLength)
                  /\ (k - 1) \in Range(buckets[b])

\* C17: for every prefix length the constructor accepts, a call of
\* bucketSortStrings computes, in size_t arithmetic that does not wrap, a
\* table of exactly 256 ** prefixLength entries and, for each string of at
\* least prefixLength bytes, a bucket index that is the big-endian base-256
\* value of its first prefixLength unsigned bytes, lies inside the table,
\* and gives back those bytes as the bucket's prefix; no access is outside
\* the table.
C17_KeysFitTheTable ==
  pc \in {"sorted", "fault"} => KeysFitTheTable

\* What does hold: the same for every prefix length below sizeof(size_t).
KeysFitBelowWordBytes ==
  (pc \in {"sorted", "fault"} /\ parallelPrefixLength < WordBytes) => KeysFitTheTable

\* some node of the subtree of id holds a string index
HasTerminal(h, id) ==
  \E n \in Subtree(h, id) : h.mem[n].m_stringIndex # INVALID_STRING_INDEX

\* every node below the root has a string index in its subtree
NoDeadBranch(h, root) ==
  \A n \in Subtree(h, root) \ {root} : HasTerminal(h, n)

\* C18: in every trie a constructor has produced (the trie built by
\* sequential insertion, the trie of each bucket, each merged trie, and
\* the installed trie before and after the short strings are inserted)
\* every node but the root has a string index in its subtree; and on the
\* constructed trie, for every non-empty prefix,
\* getDescendantNodeForPrefix returns a node exactly when searchPrefix
\* returns some index.
C18_NoDeadBranches ==
  /\ \A slot \in RootSlots :
       SlotValue(slot) # NULL => NoDeadBranch(heap, SlotValue(slot))
  /\ Built =>
       \A prefix \in Prefixes \ {<<>>} :
         getDescendantNodeForPrefix(heap, m_rootNode, prefix) # NULL
           <=> Found(prefix) # <<>>

\* a merged trie with short strings inserted, and a prefix without a node
C18_Witness ==
  /\ Built /\ ~Sequential
  /\ rounds = MaxPrefixLength
  /\ Len(buckets) >= 2
  /\ stringIndex > 0
  /\ query.calls > 0
  /\ query.prefix # <<>>
  /\ getDescendantNodeForPrefix(heap, m_rootNode, query.prefix) = NULL
  /\ query.stringIndices = <<>>

(***************************************************************************)
(* C19                                                                     *)
(***************************************************************************)
\* the footprint of a tree as the mathematical sum: sizeof(Node) and one
\* pair entry per child, plus the footprints of the children (below 2^64
\* for every tree of the runs)
RECURSIVE Footprint(_)
Footprint(fanOut) ==
  IF fanOut = <<>> THEN WordOfByte(SizeofNode)
  ELSE AddWord(WordOfByte(SizeofNode),
               MulWord(AddWord(WordOfByte(SizeofKeyChildNodePair),
                               Footprint(Tail(fanOut))),
                       Head(fanOut)))

\* 2^32, the first value an unsigned int cannot hold
UIntLimit == [k \in 1..WordBytes |-> IF k = UIntBytes + 1 THEN 1 ELSE 0]

\* C19: getSizeInMemory() returns, as a size_t without truncation, the
\* node's own footprint plus the sum of getSizeInMemory() over its
\* children, for subtrees of any total size, and leaves the tree unchanged.
C19_SizeInMemoryIsFootprint ==
  /\ [](nodeCall.op = "getSizeInMemory" => nodeCall.result = Footprint(nodeCall.tree))
  /\ [][nodeCall'.tree = nodeCall.tree /\ heap' = heap]_vars

\* what does hold: the result is the footprint when every node's children
\* together take less than 2^32 bytes, and the footprint modulo 2^32 of the
\* children otherwise; the tree is unchanged
SizeInMemoryBelowUIntLimit ==
  /\ [](nodeCall.op = "getSizeInMemory"
          /\ WordLess(Footprint(nodeCall.tree), UIntLimit)
        => nodeCall.result = Footprint(nodeCall.tree))
  /\ [][nodeCall'.tree = nodeCall.tree /\ heap' = heap]_vars

\* a call on a tree of 4 GiB or more
SizeInMemoryAboveUIntLimit ==
  /\ nodeCall.op = "getSizeInMemory"
  /\ ~WordLess(Footprint(nodeCall.tree), UIntLimit)

=============================================================================
